---------------------------- MODULE Spec2Model ----------------------------
(***************************************************************************)
(* The drawing canvas engine of hellojournal-2: the full-featured revision *)
(* of the DrawingCanvas component (src/src/components/DrawingCanvas.tsx,   *)
(* lines 215-999) together with the revision of canvasOperations.ts that it *)
(* imports from (src/src/utils/canvasOperations.ts, lines 208-480: the one  *)
(* that exports addText, importImage, saveEntry, clearDraft).               *)
(*                                                                         *)
(* The component is a React function component.  Its state is the useState *)
(* cells; a handler runs to completion, React re-renders, and the effects  *)
(* whose dependencies changed run before the next event is handled, so one *)
(* action is one handler together with the effects it triggers.  The only  *)
(* suspension points are the decode of an imported image and fabric's      *)
(* loadFromJSON, which complete in a later task: they are the elements of  *)
(* tasks.                                                                  *)
(*                                                                         *)
(* fabric is the rendering collaborator.  What is used of it: add fires    *)
(* 'object:added' synchronously on the canvas the object is added to;      *)
(* setActiveObject fires 'selection:created' when nothing was active;      *)
(* loadFromJSON parses its argument at once (a string that is not JSON     *)
(* throws) and later clears the canvas and adds the revived objects;       *)
(* dispose empties the canvas' object list and leaves its handlers         *)
(* registered; rotate() and scale() called from code fire no event.        *)
(***************************************************************************)
EXTENDS Integers, Sequences, FiniteSets

\* ----------------------------------------------------------------- bounds
\* number of fabric canvases the initialisation effect may create
MaxInits == 4
\* objects on one canvas
MaxObjs == 1
\* decodes / loads in flight
MaxTasks == 1
\* rotate, resize, zoom and save-entry commands in one session
MaxExtras == 1
\* entries in the stored list, and clock readings, of the entries-list model
MaxEntries == 3
MaxTime == 3

\* ------------------------------------------------------ program constants
\* zoom is kept in thousandths: 1 is 1000, the limits 0.1 and 5 are 100, 5000
ZoomUnit == 1000
ZoomMin == 100
ZoomMax == 5000
\* degrees per rotate command, tenths of scale per resize command
RotateStep == 90
ResizeStep == 1
\* scale is kept in tenths: the default scale 1 is 10
ScaleUnit == 10
\* the default width of the canvas, in pixels
CanvasWidth == 600

VARIABLES
    showCanvasSizeSelector, \* useState(true)
    nCanvas,        \* canvases created so far; the `canvas` state cell holds
                    \* canvas nCanvas (null when 0), the one most recently created
    objs,           \* objs[c]: the object list of fabric canvas c
    clIndex,        \* clIndex[c]: historyIndex as captured by the listeners the
                    \* effect registered on canvas c
    active,         \* index of the active object of the live canvas, 0 = none
    editing,        \* the active IText of the live canvas is in editing mode
    tool,           \* useState<Tool>('pen')
    penColor,       \* useState("#000000")
    isPanning,      \* useState(false)
    zoom,           \* useState(1), in thousandths
    hasDraftLoaded, \* useState(false)
    history,        \* useState<string[]>([])
    historyIndex,   \* useState(-1)
    canUndo,        \* useState(false)
    canRedo,        \* useState(false)
    draft,          \* localStorage[DRAFT_KEY]
    entries,        \* localStorage[ENTRIES_KEY], parsed
    tasks,          \* image decodes and loadFromJSON calls in flight
    crashed,        \* an exception escaped the initialisation effect
    extras,         \* rotate, resize, zoom and save-entry commands so far
    uncaught,       \* an exception has escaped an event handler, or a promise
                    \* was rejected with nothing to handle the rejection
    viewport,       \* canvas.viewportTransform of the live canvas: zoom in
                    \* thousandths, x translation in thousandths of a pixel
    isInitialized,  \* first revision: useState(false)
    timers          \* first revision: timers[c] is the number of pending
                    \* setTimeout callbacks of the handler created with canvas c

vars == <<showCanvasSizeSelector, nCanvas, objs, clIndex, active, editing, tool,
          penColor,
          isPanning, zoom, hasDraftLoaded, history, historyIndex, canUndo,
          canRedo, draft, entries, tasks, crashed, extras, uncaught, viewport,
          isInitialized,
          timers>>

\* the state of the first revision of the component (lines 1-156) that the
\* revision with history does not have
debounceVars == <<isInitialized, timers>>

\* the state of the revision with history that the first revision does not
\* have
editorVars == <<showCanvasSizeSelector, clIndex, active, editing, tool, isPanning,
                zoom, hasDraftLoaded, history, historyIndex, canUndo, canRedo,
                entries, crashed, extras, uncaught, penColor>>

\* ------------------------------------------------------------------- data
Tools == {"pen", "eraser", "text", "lasso"}
\* the initial pen colour and one the picker can give
Colors == {"#000000", "#FF5733"}
Kinds == {"path", "i-text", "image"}
Canvases == 1..MaxInits

Min(a, b) == IF a < b THEN a ELSE b
Max(a, b) == IF a > b THEN a ELSE b

\* A fabric object as created by the brush, addText or importImage: angle 0,
\* scale 1; selectable is fabric's default and is not part of toJSON().
NewObject(kind) ==
    [type |-> kind, angle |-> 0, scaleX |-> ScaleUnit, selectable |-> TRUE]

\* canvas.toJSON() with no allow-list: the intrinsic fields of every object,
\* without the interaction flags.
ToObject(o) == [type |-> o.type, angle |-> o.angle, scaleX |-> o.scaleX]

\* JSON.stringify(canvas.toJSON())
Serialize(scene) ==
    [tag |-> "canvas", objects |-> [i \in 1..Len(scene) |-> ToObject(scene[i])]]

\* fabric revives an object from its JSON; flags that are not in the document
\* take fabric's defaults.
FromObject(j) ==
    [type |-> j.type, angle |-> j.angle, scaleX |-> j.scaleX, selectable |-> TRUE]

Deserialize(objects) == [i \in 1..Len(objects) |-> FromObject(objects[i])]

\* ---------------------------------------------------------------- storage
\* localStorage.getItem(DRAFT_KEY): null, a string that is not JSON, the
\* JSON of a canvas (what this revision writes), or the versioned document
\* {version, timestamp, canvasData} the other revision writes.
Absent == [tag |-> "absent"]
Corrupt == [tag |-> "corrupt"]
Versioned(scene) == [tag |-> "state", version |-> "1.0", canvasData |-> Serialize(scene)]

InitialDrafts ==
    {Absent, Corrupt, Serialize(<<NewObject("path")>>),
     Versioned(<<NewObject("path")>>)}

\* The objects loadFromJSON finds in a parsed document: `objects`, or none
\* when the document has no such key.
DocObjects(d) == IF d.tag = "canvas" THEN d.objects ELSE <<>>

Live == nCanvas
DrawingMode == tool \in {"pen", "eraser"}
Ready == ~showCanvasSizeSelector /\ ~crashed /\ nCanvas >= 1

\* the viewportTransform of a new fabric canvas
Identity == [zoom |-> ZoomUnit, x |-> 0]

\* canvas.zoomToPoint(point, value): the scene point shown at canvas pixel q
\* stays at q while the viewport zoom becomes z
ZoomToPoint(v, q, z) ==
    [zoom |-> z, x |-> ZoomUnit * q - (z * (ZoomUnit * q - v.x)) \div v.zoom]

\* canvas.width / 2 of handleZoom, and where the pointer of a wheel event
\* can be: the left edge, the centre, the right edge
Center == CanvasWidth \div 2
Pointers == {0, Center, CanvasWidth}

TypeOK ==
    /\ showCanvasSizeSelector \in BOOLEAN
    /\ nCanvas \in 0..MaxInits
    /\ active \in 0..MaxObjs
    /\ editing \in BOOLEAN
    /\ tool \in Tools
    /\ isPanning \in BOOLEAN
    /\ zoom \in ZoomMin..ZoomMax
    /\ hasDraftLoaded \in BOOLEAN
    /\ historyIndex \in -1..(MaxInits + 1)
    /\ canUndo \in BOOLEAN
    /\ canRedo \in BOOLEAN
    /\ crashed \in BOOLEAN
    /\ isInitialized \in BOOLEAN
    /\ uncaught \in BOOLEAN
    /\ penColor \in Colors
    /\ viewport.zoom \in ZoomMin..ZoomMax
    /\ \A c \in Canvases : timers[c] \in Nat
    /\ extras \in 0..MaxExtras
    /\ Cardinality(tasks) <= MaxTasks
    /\ Len(entries) <= Max(MaxExtras, MaxEntries)
    /\ \A c \in Canvases : Len(objs[c]) <= MaxObjs

Init ==
    /\ showCanvasSizeSelector = TRUE
    /\ nCanvas = 0
    /\ objs = [c \in Canvases |-> <<>>]
    /\ clIndex = [c \in Canvases |-> -1]
    /\ active = 0
    /\ editing = FALSE
    /\ tool = "pen"
    /\ isPanning = FALSE
    /\ zoom = ZoomUnit
    /\ hasDraftLoaded = FALSE
    /\ history = <<>>
    /\ historyIndex = -1
    /\ canUndo = FALSE
    /\ canRedo = FALSE
    /\ draft \in InitialDrafts
    /\ entries = <<>>
    /\ tasks = {}
    /\ crashed = FALSE
    /\ extras = 0
    /\ isInitialized = FALSE
    /\ timers = [c \in Canvases |-> 0]
    /\ viewport = Identity
    /\ uncaught = FALSE
    /\ penColor = "#000000"

\* ------------------------------------------------------------ persistence
\* saveCanvasState(canvas): localStorage.setItem(DRAFT_KEY,
\* JSON.stringify(canvas.toJSON())); the value the draft slot then holds.
SaveCanvasState(scene) == Serialize(scene)

\* loadDraft(canvas): "none" when the slot is empty, otherwise
\* loadCanvasFromJSON(canvas, draft), whose JSON.parse throws on a string
\* that is not JSON ("throws"), and true is returned ("loaded").
LoadDraft(d) ==
    IF d = Absent THEN "none"
    ELSE IF d = Corrupt THEN "throws"
    ELSE "loaded"

\* A JournalEntry as saveEntry builds it (id, createdAt and updatedAt are
\* clock readings and are not kept).
NewEntry(json, title) ==
    [title |-> title, content |-> json, type |-> "drawing", isDraft |-> FALSE]

\* saveEntry with its two writes in the other order: the draft is removed
\* before the entries list is written.
SaveEntryDraftFirst(es, d, json, title, ok) ==
    IF ok
    THEN [entries |-> Append(es, NewEntry(json, title)), draft |-> Absent]
    ELSE [entries |-> es, draft |-> Absent]

\* saveEntry's two writes.  ok is whether localStorage.setItem(ENTRIES_KEY)
\* succeeds; when it throws, removeItem(DRAFT_KEY) is not reached.
SaveEntry(es, d, json, title, ok) ==
    IF ok
    THEN [entries |-> Append(es, NewEntry(json, title)), draft |-> Absent]
    ELSE [entries |-> es, draft |-> d]

\* ---------------------------------------------------------------- history
histVars == <<history, historyIndex, canUndo, canRedo>>

\* The canvas the listeners registered on canvas c see as `canvas`: the
\* state cell as it was in the render that scheduled the effect, which is
\* the canvas of the previous run (null, 0, for the first run).
ClCanvas(c) == c - 1

\* [...prev.slice(0, historyIndex + 1), json] with the captured historyIndex k
PushHistory(prev, k, json) == SubSeq(prev, 1, Min(Len(prev), k + 1)) \o <<json>>

\* The 'object:added' listener of lines 360-372, registered on canvas c.
\* It does nothing while its `canvas` is null; otherwise it serializes that
\* canvas, pushes with the captured index and saves that canvas.
Pushes(c) == ClCanvas(c) # 0

ObjectAdded(c) ==
    IF Pushes(c)
    THEN /\ history' = PushHistory(history, clIndex[c], Serialize(objs[ClCanvas(c)]))
         /\ historyIndex' = clIndex[c] + 1
         /\ canUndo' = TRUE
         /\ canRedo' = FALSE
    ELSE UNCHANGED histVars

\* the draft after that listener's saveCanvasState(canvas)
AddedDraft(c) ==
    IF Pushes(c) THEN SaveCanvasState(objs[ClCanvas(c)]) ELSE draft

\* --------------------------------------------- the initialisation effect
\* useEffect of lines 326-445 with its cleanup.  The cleanup of the previous
\* run disposes the previous canvas; the body creates a canvas, stores it in
\* the `canvas` cell, loads the draft unless hasDraftLoaded, and registers
\* listeners that capture the render's canvas and historyIndex.  A
\* successful loadDraft sets hasDraftLoaded, a dependency, so the effect
\* runs once more at once: the canvas the draft is being loaded into is
\* disposed and a second, blank one becomes the live canvas.
Dispose(os, c) == IF c = 0 THEN os ELSE [os EXCEPT ![c] = <<>>]

RunEffect ==
    LET r == IF hasDraftLoaded THEN "none" ELSE LoadDraft(draft)
        n == nCanvas + 1
    IN  /\ active' = 0
        /\ editing' = FALSE
        /\ viewport' = Identity
        /\ CASE r = "throws" ->
                  /\ n <= MaxInits
                  /\ nCanvas' = n
                  /\ objs' = Dispose(objs, nCanvas)
                  /\ clIndex' = clIndex
                  /\ crashed' = TRUE
                  /\ UNCHANGED <<tasks, hasDraftLoaded>>
             [] r = "loaded" ->
                  /\ n + 1 <= MaxInits
                  /\ Cardinality(tasks) < MaxTasks
                  /\ nCanvas' = n + 1
                  /\ objs' = Dispose(objs, nCanvas)
                  /\ clIndex' = [clIndex EXCEPT ![n] = historyIndex,
                                                ![n + 1] = historyIndex]
                  /\ tasks' = tasks \cup
                        {[kind |-> "load", origin |-> "draft", canvas |-> n,
                          objects |-> DocObjects(draft)]}
                  /\ hasDraftLoaded' = TRUE
                  /\ crashed' = crashed
             [] OTHER ->
                  /\ n <= MaxInits
                  /\ nCanvas' = n
                  /\ objs' = Dispose(objs, nCanvas)
                  /\ clIndex' = [clIndex EXCEPT ![n] = historyIndex]
                  /\ UNCHANGED <<tasks, hasDraftLoaded, crashed>>

\* handleCanvasSizeSelect
SelectSize ==
    /\ showCanvasSizeSelector
    /\ showCanvasSizeSelector' = FALSE
    /\ RunEffect
    /\ UNCHANGED <<tool, isPanning, zoom, histVars, draft, entries, extras>>
    /\ UNCHANGED <<debounceVars, uncaught, penColor>>


\* ----------------------------------------------------------- the commands
IsText(scene, i) == i \in 1..Len(scene) /\ scene[i].type = "i-text"

\* The textOptions effect (lines 621-629) runs after a 'selection:created'
\* on an IText has replaced textOptions: it saves the live canvas when the
\* live canvas' active object is an IText.
TextOptionsSaves(scene, act) == IsText(scene, act)

Remove(scene, i) == [k \in 1..(Len(scene) - 1) |-> IF k < i THEN scene[k] ELSE scene[k + 1]]

\* rotateObject(canvas, angle) on the active object
RotateObject(o, by) == [o EXCEPT !.angle = @ + by]

\* resizeObject(canvas, scaleChange) on the active object:
\* currentScale = scaleX || 1
ResizeObject(o, by) ==
    [o EXCEPT !.scaleX = (IF o.scaleX = 0 THEN ScaleUnit ELSE o.scaleX) + by]

\* A pen or eraser stroke is committed: the brush adds a path to the live
\* canvas ('object:added').
DrawStroke ==
    /\ Ready /\ DrawingMode /\ ~isPanning
    /\ Len(objs[Live]) < MaxObjs
    /\ objs' = [objs EXCEPT ![Live] = Append(@, NewObject("path"))]
    /\ ObjectAdded(Live)
    /\ draft' = AddedDraft(Live)
    /\ UNCHANGED <<showCanvasSizeSelector, nCanvas, clIndex, active, editing, tool,
                   isPanning, zoom, hasDraftLoaded, entries, tasks, crashed, extras>>
    /\ UNCHANGED <<debounceVars, viewport, uncaught, penColor>>

\* handleTextAdd: addText adds an IText, makes it active and enters editing;
\* the tool becomes 'text'.  In order: the listener of line 345 activates
\* the object (an IText that was being edited exits editing, whose handler
\* saves the canvas; 'selection:created' if nothing was active), the history
\* listener pushes and saves, and after the render the textOptions effect
\* saves the live canvas.
AddText ==
    /\ Ready
    /\ Len(objs[Live]) < MaxObjs
    /\ objs' = [objs EXCEPT ![Live] = Append(@, NewObject("i-text"))]
    /\ ObjectAdded(Live)
    /\ active' = Len(objs[Live]) + 1
    /\ editing' = TRUE
    /\ tool' = "text"
    /\ IF active = 0
       THEN draft' = SaveCanvasState(objs'[Live])
       ELSE IF Pushes(Live)
       THEN draft' = AddedDraft(Live)
       ELSE IF editing
       THEN draft' = SaveCanvasState(objs'[Live])
       ELSE draft' = draft
    /\ UNCHANGED <<showCanvasSizeSelector, nCanvas, clIndex, isPanning, zoom,
                   hasDraftLoaded, entries, tasks, crashed, extras>>
    /\ UNCHANGED <<debounceVars, viewport, uncaught, penColor>>

\* The IText being edited loses focus: the 'editing:exited' handler addText
\* registered saves the canvas.
ExitEditing ==
    /\ Ready /\ editing
    /\ editing' = FALSE
    /\ draft' = SaveCanvasState(objs[Live])
    /\ UNCHANGED <<showCanvasSizeSelector, nCanvas, objs, clIndex, active, tool,
                   isPanning, zoom, hasDraftLoaded, histVars, entries, tasks, crashed, extras>>
    /\ UNCHANGED <<debounceVars, viewport, uncaught, penColor>>

\* The user clicks object i while the canvas is not in drawing mode.
Select(i) ==
    /\ Ready /\ ~DrawingMode /\ ~isPanning
    /\ i \in 1..Len(objs[Live]) /\ i # active
    /\ active' = i
    /\ editing' = FALSE
    /\ IF editing \/ (active = 0 /\ TextOptionsSaves(objs[Live], i))
       THEN draft' = SaveCanvasState(objs[Live])
       ELSE draft' = draft
    /\ UNCHANGED <<showCanvasSizeSelector, nCanvas, objs, clIndex, tool, isPanning,
                   zoom, hasDraftLoaded, histVars, entries, tasks, crashed, extras>>
    /\ UNCHANGED <<debounceVars, viewport, uncaught, penColor>>

\* The user clicks the blank canvas while it is not in drawing mode.
Deselect ==
    /\ Ready /\ ~DrawingMode /\ ~isPanning
    /\ active # 0
    /\ active' = 0
    /\ editing' = FALSE
    /\ IF editing
       THEN draft' = SaveCanvasState(objs[Live])
       ELSE draft' = draft
    /\ UNCHANGED <<showCanvasSizeSelector, nCanvas, objs, clIndex, tool, isPanning,
                   zoom, hasDraftLoaded, histVars, entries, tasks, crashed, extras>>
    /\ UNCHANGED <<debounceVars, viewport, uncaught, penColor>>

\* handleToolChange; for the lasso, enableLassoSelection resets the canvas
\* viewport with setViewportTransform([1, 0, 0, 1, 0, 0])
HandleToolChange(t) ==
    /\ Ready
    /\ tool' = t
    /\ viewport' = IF t = "lasso" THEN Identity ELSE viewport
    /\ UNCHANGED <<showCanvasSizeSelector, nCanvas, objs, clIndex, active, editing,
                   isPanning, zoom, hasDraftLoaded, histVars, draft, entries, tasks,
                   crashed, extras>>
    /\ UNCHANGED <<debounceVars, uncaught, penColor>>

\* HSBColorPicker onChange={setPenColor}, shown for every tool but the
\* eraser: the colour is set and nothing else
SelectColor(c) ==
    /\ Ready
    /\ tool # "eraser"
    /\ penColor' = c
    /\ UNCHANGED <<showCanvasSizeSelector, nCanvas, objs, clIndex, active, editing,
                   tool, isPanning, zoom, hasDraftLoaded, histVars, draft, entries,
                   tasks, crashed, extras>>
    /\ UNCHANGED <<debounceVars, viewport, uncaught>>

\* deleteSelectedObjects without its activeObjects.length > 0 test: with no
\* selection the topmost object is removed
DeleteTopmost ==
    /\ Ready
    /\ LET i == IF active # 0 THEN active ELSE Len(objs[Live]) IN
       IF i # 0
       THEN /\ objs' = [objs EXCEPT ![Live] = Remove(@, i)]
            /\ active' = 0
            /\ editing' = FALSE
            /\ draft' = IF editing THEN SaveCanvasState(objs[Live]) ELSE draft
       ELSE UNCHANGED <<objs, active, editing, draft>>
    /\ UNCHANGED <<showCanvasSizeSelector, nCanvas, clIndex, tool, isPanning, zoom,
                   hasDraftLoaded, histVars, entries, tasks, crashed, extras>>
    /\ UNCHANGED <<debounceVars, viewport, uncaught, penColor>>

\* handleDelete: deleteSelectedObjects discards the selection (an IText
\* being edited exits editing, whose handler saves the canvas as it is then)
\* and removes the objects that were active; nothing listens to
\* 'object:removed'.
HandleDelete ==
    /\ Ready
    /\ IF active # 0
       THEN /\ objs' = [objs EXCEPT ![Live] = Remove(@, active)]
            /\ active' = 0
            /\ editing' = FALSE
            /\ draft' = IF editing THEN SaveCanvasState(objs[Live]) ELSE draft
       ELSE UNCHANGED <<objs, active, editing, draft>>
    /\ UNCHANGED <<showCanvasSizeSelector, nCanvas, clIndex, tool, isPanning, zoom,
                   hasDraftLoaded, histVars, entries, tasks, crashed, extras>>
    /\ UNCHANGED <<debounceVars, viewport, uncaught, penColor>>

\* handleRotate(clockwise): rotateObject(canvas, +-90)
HandleRotate(clockwise) ==
    /\ Ready
    /\ LET by == IF clockwise THEN RotateStep ELSE -RotateStep IN
       IF active # 0
       THEN /\ extras < MaxExtras
            /\ extras' = extras + 1
            /\ objs' = [objs EXCEPT ![Live][active] = RotateObject(@, by)]
       ELSE UNCHANGED <<objs, extras>>
    /\ UNCHANGED <<showCanvasSizeSelector, nCanvas, clIndex, active, editing, tool,
                   isPanning, zoom, hasDraftLoaded, histVars, draft, entries, tasks,
                   crashed>>
    /\ UNCHANGED <<debounceVars, viewport, uncaught, penColor>>

\* handleResize(increase): resizeObject(canvas, +-0.1)
HandleResize(increase) ==
    /\ Ready
    /\ LET by == IF increase THEN ResizeStep ELSE -ResizeStep IN
       IF active # 0
       THEN /\ extras < MaxExtras
            /\ extras' = extras + 1
            /\ objs' = [objs EXCEPT ![Live][active] = ResizeObject(@, by)]
       ELSE UNCHANGED <<objs, extras>>
    /\ UNCHANGED <<showCanvasSizeSelector, nCanvas, clIndex, active, editing, tool,
                   isPanning, zoom, hasDraftLoaded, histVars, draft, entries, tasks,
                   crashed>>
    /\ UNCHANGED <<debounceVars, viewport, uncaught, penColor>>


\* ------------------------------------------------------------ image import
\* handleImageUpload: importImage(canvas, file) starts reading the file; the
\* canvas it was given is the one the image will be added to.
HandleImageUpload ==
    /\ Ready
    /\ Cardinality(tasks) < MaxTasks
    /\ tasks' = tasks \cup {[kind |-> "image", canvas |-> Live]}
    /\ UNCHANGED <<showCanvasSizeSelector, nCanvas, objs, clIndex, active, editing,
                   tool, isPanning, zoom, hasDraftLoaded, histVars, draft, entries,
                   crashed, extras>>
    /\ UNCHANGED <<debounceVars, viewport, uncaught, penColor>>

\* imgElement.onload: the image is added to the canvas importImage was given
\* ('object:added' on that canvas), made active, and that canvas is saved.
ImportDone(t) ==
    /\ ~crashed
    /\ t \in tasks /\ t.kind = "image"
    /\ Len(objs[t.canvas]) < MaxObjs
    /\ tasks' = tasks \ {t}
    /\ objs' = [objs EXCEPT ![t.canvas] = Append(@, NewObject("image"))]
    /\ ObjectAdded(t.canvas)
    /\ IF t.canvas = Live
       THEN active' = Len(objs[Live]) + 1 /\ editing' = FALSE
       ELSE UNCHANGED <<active, editing>>
    /\ draft' = SaveCanvasState(objs'[t.canvas])
    /\ UNCHANGED <<showCanvasSizeSelector, nCanvas, clIndex, tool, isPanning, zoom,
                   hasDraftLoaded, entries, crashed, extras>>
    /\ UNCHANGED <<debounceVars, viewport, uncaught, penColor>>

\* reader.onerror = reject: nothing is added and the promise is rejected;
\* handleImageUpload has dropped the promise, so the rejection has no handler.
ImportFail(t) ==
    /\ ~crashed
    /\ t \in tasks /\ t.kind = "image"
    /\ tasks' = tasks \ {t}
    /\ uncaught' = TRUE
    /\ UNCHANGED <<showCanvasSizeSelector, nCanvas, objs, clIndex, active, editing,
                   tool, isPanning, zoom, hasDraftLoaded, histVars, draft, entries,
                   crashed, extras>>
    /\ UNCHANGED <<debounceVars, viewport, penColor>>

\* The file is read but is not an image: imgElement has no onerror, so
\* nothing is added and the promise is never settled.
DecodeFail(t) ==
    /\ ~crashed
    /\ t \in tasks /\ t.kind = "image"
    /\ tasks' = tasks \ {t}
    /\ UNCHANGED <<showCanvasSizeSelector, nCanvas, objs, clIndex, active, editing,
                   tool, isPanning, zoom, hasDraftLoaded, histVars, draft, entries,
                   crashed, extras>>
    /\ UNCHANGED <<debounceVars, viewport, uncaught, penColor>>

\* ------------------------------------------------------------ undo / redo
\* loadCanvasFromJSON(canvas, history[newIndex]) in flight
LoadTask(c, json) ==
    [kind |-> "load", origin |-> "history", canvas |-> c,
     objects |-> DocObjects(json)]

\* handleUndo, reached through the Undo button (disabled while ~canUndo).
\* history[newIndex] is undefined when the cursor is beyond the history; then
\* loadFromJSON is given no document and loads nothing.
HandleUndo ==
    /\ Ready /\ canUndo
    /\ IF historyIndex <= 0
       THEN UNCHANGED <<historyIndex, canUndo, canRedo, tasks>>
       ELSE /\ Cardinality(tasks) < MaxTasks
            /\ historyIndex' = historyIndex - 1
            /\ canRedo' = TRUE
            /\ canUndo' = IF historyIndex - 1 = 0 THEN FALSE ELSE canUndo
            /\ tasks' = IF historyIndex - 1 + 1 \in 1..Len(history)
                        THEN tasks \cup {LoadTask(Live, history[historyIndex - 1 + 1])}
                        ELSE tasks
    /\ UNCHANGED <<showCanvasSizeSelector, nCanvas, objs, clIndex, active, editing,
                   tool, isPanning, zoom, hasDraftLoaded, history, draft, entries,
                   crashed, extras>>
    /\ UNCHANGED <<debounceVars, viewport, uncaught, penColor>>

\* handleRedo, reached through the Redo button (disabled while ~canRedo)
HandleRedo ==
    /\ Ready /\ canRedo
    /\ IF historyIndex >= Len(history) - 1
       THEN UNCHANGED <<historyIndex, canUndo, canRedo, tasks>>
       ELSE /\ Cardinality(tasks) < MaxTasks
            /\ historyIndex' = historyIndex + 1
            /\ canUndo' = TRUE
            /\ canRedo' = IF historyIndex + 1 = Len(history) - 1 THEN FALSE ELSE canRedo
            /\ tasks' = tasks \cup {LoadTask(Live, history[historyIndex + 1 + 1])}
    /\ UNCHANGED <<showCanvasSizeSelector, nCanvas, objs, clIndex, active, editing,
                   tool, isPanning, zoom, hasDraftLoaded, history, draft, entries,
                   crashed, extras>>
    /\ UNCHANGED <<debounceVars, viewport, uncaught, penColor>>

LastText(scene) ==
    LET S == {i \in 1..Len(scene) : scene[i].type = "i-text"}
    IN  IF S = {} THEN 0 ELSE CHOOSE i \in S : \A k \in S : k <= i

\* canvas.loadFromJSON completes: the canvas is cleared (the active object
\* is discarded; an IText being edited exits editing, whose handler saves)
\* and the revived objects are added, each firing 'object:added': the
\* listener of line 345 activates every IText, the history listener pushes
\* and saves; after the render the textOptions effect may save.
LoadDone(t) ==
    /\ ~crashed
    /\ t \in tasks /\ t.kind = "load"
    /\ tasks' = tasks \ {t}
    /\ LET new == Deserialize(t.objects)
           act == IF t.canvas = Live THEN LastText(new) ELSE active
           scene == IF t.canvas = Live THEN new ELSE objs[Live]
       IN  /\ objs' = [objs EXCEPT ![t.canvas] = new]
           /\ IF Len(new) > 0 THEN ObjectAdded(t.canvas) ELSE UNCHANGED histVars
           /\ active' = act
           /\ editing' = IF t.canvas = Live THEN FALSE ELSE editing
           /\ IF LastText(new) # 0 /\ TextOptionsSaves(scene, act)
              THEN draft' = SaveCanvasState(scene)
              ELSE IF Len(new) > 0 /\ Pushes(t.canvas)
              THEN /\ draft' = AddedDraft(t.canvas)
              ELSE IF t.canvas = Live /\ editing
              THEN draft' = SaveCanvasState(objs[Live])
              ELSE draft' = draft
    /\ UNCHANGED <<showCanvasSizeSelector, nCanvas, clIndex, tool, isPanning, zoom,
                   hasDraftLoaded, entries, crashed, extras>>
    /\ UNCHANGED <<debounceVars, viewport, uncaught, penColor>>

\* ------------------------------------------------------------ zoom and pan
\* newZoom without the limit
NoClamp(z) == z

\* Math.min(Math.max(0.1, newZoom), 5)
Clamp(z) == Min(Max(ZoomMin, z), ZoomMax)

\* handleZoom(zoomIn): zoom * 1.1 or zoom * 0.9, limited to [0.1, 5]
ZoomStep(z, zoomIn) == Clamp(IF zoomIn THEN (z * 11) \div 10 ELSE (z * 9) \div 10)

\* 'mouse:wheel': zoom * 0.95 when deltaY > 0, zoom * 1.05 otherwise
WheelStep(z, down) == Clamp(IF down THEN (z * 95) \div 100 ELSE (z * 105) \div 100)

\* canvas.zoomToPoint(q, z); setZoom(z).  zoom is a dependency of the
\* initialisation effect; setting the value the state already has renders
\* nothing and leaves the canvas, zoomed, in place.
SetZoom(z, q) ==
    /\ zoom' = z
    /\ IF z # zoom
       THEN extras < MaxExtras /\ extras' = extras + 1 /\ RunEffect
       ELSE /\ viewport' = ZoomToPoint(viewport, q, z)
            /\ UNCHANGED <<nCanvas, objs, clIndex, active, editing, tasks,
                           hasDraftLoaded, crashed, extras>>
    /\ UNCHANGED <<showCanvasSizeSelector, tool, isPanning, histVars, draft, entries>>
    /\ UNCHANGED <<debounceVars, uncaught, penColor>>

HandleZoom(zoomIn) == Ready /\ SetZoom(ZoomStep(zoom, zoomIn), Center)

MouseWheel(down, q) == Ready /\ SetZoom(WheelStep(zoom, down), q)

\* handlePanToggle; isPanning is a dependency of the initialisation effect
HandlePanToggle ==
    /\ Ready
    /\ isPanning' = ~isPanning
    /\ RunEffect
    /\ UNCHANGED <<showCanvasSizeSelector, tool, zoom, histVars, draft, entries, extras>>
    /\ UNCHANGED <<debounceVars, uncaught, penColor>>

\* -------------------------------------------------------------- save entry
\* handleConfirmSave: saveEntry(canvas, title), neither of which catches the
\* exception of a failing localStorage.setItem
HandleConfirmSave(ok) ==
    /\ Ready
    /\ IF ok THEN extras < MaxExtras /\ extras' = extras + 1 ELSE extras' = extras
    /\ LET r == SaveEntry(entries, draft, Serialize(objs[Live]), "Untitled", ok)
       IN  entries' = r.entries /\ draft' = r.draft
    /\ UNCHANGED <<showCanvasSizeSelector, nCanvas, objs, clIndex, active, editing,
                   tool, isPanning, zoom, hasDraftLoaded, histVars, tasks, crashed>>
    /\ uncaught' = (uncaught \/ ~ok)
    /\ UNCHANGED <<debounceVars, viewport, penColor>>

\* ------------------------------------------- the codec of the versioned draft
\* saveCanvasState and loadDraft of canvasOperations.ts lines 97-207, as a
\* function of one scene.  An object here carries its interaction flags.
FlagNames ==
    {"selectable", "hasControls", "lockMovementX", "lockMovementY",
     "lockRotation", "lockScalingX", "lockScalingY", "editable"}

\* fabric's value of a flag the document does not mention
FlagDefault(f) == f \in {"selectable", "hasControls", "editable"}

\* the flags among the names saveCanvasState passes to canvas.toJSON
\* (the other names of that list are intrinsic fields)
StateFlags == {"selectable", "hasControls", "editable"}

\* the flags handleSaveDraft of DrawJournal.tsx passes to canvas.toJSON
JournalFlags == FlagNames

FlaggedObjects ==
    [type : Kinds, angle : {0}, scaleX : {ScaleUnit}, flags : [FlagNames -> BOOLEAN]]

\* canvas.toJSON(allow) for one object: the intrinsic fields and the flags
\* named in allow
ToObjectWith(o, allow) ==
    [type |-> o.type, angle |-> o.angle, scaleX |-> o.scaleX,
     flags |-> [f \in allow |-> o.flags[f]]]

\* the document saveCanvasState writes for a non-empty scene
CanvasState(scene) ==
    [tag |-> "state", version |-> "1.0",
     canvasData |-> [tag |-> "canvas",
                     objects |-> [i \in 1..Len(scene) |->
                                     ToObjectWith(scene[i], StateFlags)]]]

\* fabric revives an object: a flag takes the document's value, or fabric's
\* default when the document has none
Revive(j) ==
    [type |-> j.type, angle |-> j.angle, scaleX |-> j.scaleX,
     flags |-> [f \in FlagNames |->
                   IF f \in DOMAIN j.flags THEN j.flags[f] ELSE FlagDefault(f)]]

\* the callback of loadDraft: obj.set({selectable: true, hasControls: true,
\* ...}) on every object, and editable: true on every i-text
RestoreProperties(o) ==
    [o EXCEPT !.flags =
        [f \in FlagNames |->
            IF f \in {"selectable", "hasControls"} THEN TRUE
            ELSE IF f = "editable" /\ o.type = "i-text" THEN TRUE
            ELSE o.flags[f]]]

\* the scene loadDraft leaves on the canvas for a versioned document
LoadedScene(d) ==
    [i \in 1..Len(d.canvasData.objects) |->
        RestoreProperties(Revive(d.canvasData.objects[i]))]

\* canvas 1 holds the scene S, canvas 2 receives the loaded document
InitRoundTrip ==
    /\ showCanvasSizeSelector = FALSE
    /\ nCanvas = 2
    /\ \E o \in FlaggedObjects :
          objs = [c \in Canvases |-> IF c = 1 THEN <<o>> ELSE <<>>]
    /\ clIndex = [c \in Canvases |-> -1]
    /\ active = 0
    /\ editing = FALSE
    /\ tool = "pen"
    /\ isPanning = FALSE
    /\ zoom = ZoomUnit
    /\ hasDraftLoaded = FALSE
    /\ history = <<>>
    /\ historyIndex = -1
    /\ canUndo = FALSE
    /\ canRedo = FALSE
    /\ draft = Absent
    /\ entries = <<>>
    /\ tasks = {}
    /\ crashed = FALSE
    /\ extras = 0
    /\ isInitialized = FALSE
    /\ timers = [c \in Canvases |-> 0]
    /\ viewport = Identity
    /\ uncaught = FALSE
    /\ penColor = "#000000"

\* saveCanvasState(canvas 1)
SaveState ==
    /\ draft = Absent
    /\ draft' = CanvasState(objs[1])
    /\ UNCHANGED <<nCanvas, objs, tasks, editorVars, debounceVars, viewport>>

\* loadDraft(canvas 2), with the callback of loadFromJSON
LoadState ==
    /\ draft # Absent
    /\ objs[2] = <<>>
    /\ hasDraftLoaded' = TRUE
    /\ objs' = [objs EXCEPT ![2] = LoadedScene(draft)]
    /\ UNCHANGED <<showCanvasSizeSelector, nCanvas, clIndex, active, editing,
                   tool, isPanning, zoom, history, historyIndex, canUndo,
                   canRedo, draft, entries, tasks, crashed, extras, uncaught, penColor,
               debounceVars, viewport>>

NextRoundTrip == SaveState \/ LoadState

SpecRoundTrip == InitRoundTrip /\ [][NextRoundTrip]_vars

\* ------------------------------------------------------ the zoom arithmetic
\* handleZoom and the wheel handler as functions of the zoom factor alone,
\* started from a mounted component and repeated without limit; the effect
\* their setZoom re-runs is in HandleZoom and MouseWheel above.
InitZoom ==
    /\ showCanvasSizeSelector = FALSE
    /\ nCanvas = 1
    /\ objs = [c \in Canvases |-> <<>>]
    /\ clIndex = [c \in Canvases |-> -1]
    /\ active = 0
    /\ editing = FALSE
    /\ tool = "pen"
    /\ isPanning = FALSE
    /\ zoom = ZoomUnit
    /\ hasDraftLoaded = FALSE
    /\ history = <<>>
    /\ historyIndex = -1
    /\ canUndo = FALSE
    /\ canRedo = FALSE
    /\ draft = Absent
    /\ entries = <<>>
    /\ tasks = {}
    /\ crashed = FALSE
    /\ extras = 0
    /\ isInitialized = FALSE
    /\ timers = [c \in Canvases |-> 0]
    /\ viewport = Identity
    /\ uncaught = FALSE
    /\ penColor = "#000000"

zoomFrame == <<showCanvasSizeSelector, nCanvas, objs, clIndex, active, editing,
               tool, isPanning, hasDraftLoaded, history, historyIndex, canUndo,
               canRedo, draft, entries, tasks, crashed, extras, uncaught, penColor,
                   debounceVars, viewport>>

\* newZoom of handleZoom(zoomIn), given to zoomToPoint and to setZoom
ZoomBy(zoomIn) == zoom' = ZoomStep(zoom, zoomIn) /\ UNCHANGED zoomFrame

\* newZoom of the 'mouse:wheel' handler, given to zoomToPoint and to setZoom
WheelBy(down) == zoom' = WheelStep(zoom, down) /\ UNCHANGED zoomFrame

NextZoom ==
    \/ \E zoomIn \in BOOLEAN : ZoomBy(zoomIn)
    \/ \E down \in BOOLEAN : WheelBy(down)

SpecZoom == InitZoom /\ [][NextZoom]_vars

\* ------------------------------------------------------- the entries list
\* saveEntry, getEntries and deleteEntry of canvasOperations.ts lines
\* 445-480 as functions of the stored list.  The id of an entry is
\* Date.now().toString(): a clock reading in milliseconds, which is never
\* less than the reading before it but can be the same.
Times == 1..MaxTime
Titles == {"Untitled", "Monday"}

\* the JournalEntry with its id
Stamped(e, id) ==
    [id |-> id, title |-> e.title, content |-> e.content, type |-> e.type,
     isDraft |-> e.isDraft]

\* the latest clock reading an entry was given, 0 when there is none
LastId(es) == IF es = <<>> THEN 0 ELSE es[Len(es)].id

\* getEntries().filter(entry => entry.id !== id)
WithoutId(es, id) == SelectSeq(es, LAMBDA e : e.id # id)

\* a mounted component and an empty list
InitEntries == InitZoom

entriesFrame == <<showCanvasSizeSelector, nCanvas, objs, clIndex, active, editing,
                  tool, penColor, isPanning, zoom, hasDraftLoaded, history,
                  historyIndex, canUndo, canRedo, tasks, crashed, extras, uncaught,
                  viewport, debounceVars>>

\* saveEntry(canvas, title) at clock reading id: the entry is pushed onto
\* getEntries(), the list is written and the draft slot removed
SaveEntryAt(title, id) ==
    /\ Len(entries) < MaxEntries
    /\ id >= LastId(entries)
    /\ entries' = Append(entries, Stamped(NewEntry(Serialize(objs[Live]), title), id))
    /\ draft' = Absent
    /\ UNCHANGED entriesFrame

\* deleteEntry(id)
DeleteEntry(id) ==
    /\ entries' = WithoutId(entries, id)
    /\ UNCHANGED <<draft, entriesFrame>>

NextEntries ==
    \/ \E title \in Titles, id \in Times : SaveEntryAt(title, id)
    \/ \E id \in Times : DeleteEntry(id)

SpecEntries == InitEntries /\ [][NextEntries]_vars

\* ------------------------------------------------------- the specification
Next ==
    \/ SelectSize
    \/ DrawStroke
    \/ AddText
    \/ ExitEditing
    \/ \E i \in 1..MaxObjs : Select(i)
    \/ Deselect
    \/ \E t \in Tools : HandleToolChange(t)
    \/ \E c \in Colors : SelectColor(c)
    \/ HandleDelete
    \/ \E b \in BOOLEAN : HandleRotate(b)
    \/ \E b \in BOOLEAN : HandleResize(b)
    \/ HandleImageUpload
    \/ \E t \in tasks : ImportDone(t)
    \/ \E t \in tasks : ImportFail(t)
    \/ \E t \in tasks : DecodeFail(t)
    \/ HandleUndo
    \/ HandleRedo
    \/ \E t \in tasks : LoadDone(t)
    \/ \E b \in BOOLEAN : HandleZoom(b)
    \/ \E b \in BOOLEAN, q \in Pointers : MouseWheel(b, q)
    \/ HandlePanToggle
    \/ \E b \in BOOLEAN : HandleConfirmSave(b)

Spec == Init /\ [][Next]_vars


\* =================================================== the first revision
\* The component as first written (src/unnamed/part_004;
\* DrawingCanvas.tsx lines 1-156 is the same code with logging): one effect
\* that creates the canvas, loads the draft and registers a debounced save,
\* used with the versioned canvasOperations (lines 1-207).  It shares
\* nCanvas (canvasInstanceRef), objs, draft and tasks with the revision
\* above and leaves the rest of its state alone.

\* saveCanvasState(canvas) of lines 97-148: an empty canvas removes the
\* slot, otherwise the versioned document is written; ok is whether
\* localStorage.setItem succeeds, its exception being caught and logged.
SaveCanvasStateVersioned(scene, d, ok) ==
    IF scene = <<>> THEN Absent
    ELSE IF ok THEN Versioned(scene)
    ELSE d

\* loadDraft(canvas) of lines 150-207: false ("none") when the slot is
\* empty, when JSON.parse throws (caught) or when the document has no
\* canvasData; otherwise the canvas is cleared, loadFromJSON is started and
\* true is returned.
LoadDraftVersioned(d) ==
    IF d = Absent \/ d = Corrupt \/ d.tag # "state" THEN "none" ELSE "loaded"

\* handleCanvasChange without its clearTimeout: every event adds a timer
Stack(n) == n + 1

\* handleCanvasChange: clearTimeout(timeoutId) if one is set, then setTimeout
Reschedule(n) == 1

\* the effect body, run in a render in which isInitialized is false
EffectBody ==
    /\ ~isInitialized
    /\ nCanvas < MaxInits
    /\ LET n == nCanvas + 1 IN
       /\ nCanvas' = n
       /\ objs' = [Dispose(objs, nCanvas) EXCEPT ![n] = <<>>]
       /\ IF LoadDraftVersioned(draft) = "loaded"
          THEN /\ Cardinality(tasks) < MaxTasks
               /\ tasks' = tasks \cup
                     {[kind |-> "load", origin |-> "draft", canvas |-> n,
                       objects |-> draft.canvasData.objects]}
          ELSE tasks' = tasks
    /\ isInitialized' = TRUE
    /\ UNCHANGED <<draft, timers, editorVars>>
    /\ viewport' = Identity

\* setIsInitialized(true) re-renders: the dependency changed, so the
\* cleanup of the run above is called (clearTimeout, off, dispose,
\* setIsInitialized(false)) and the body returns at once.
Cleanup ==
    /\ isInitialized
    /\ timers' = [timers EXCEPT ![Live] = 0]
    /\ objs' = Dispose(objs, Live)
    /\ isInitialized' = FALSE
    /\ UNCHANGED <<nCanvas, draft, tasks, editorVars, viewport>>

\* A stroke is committed on the canvas ('object:added', 'path:created',
\* 'mouse:up'): handleCanvasChange reschedules the save.
StrokeCommitted ==
    /\ isInitialized
    /\ Len(objs[Live]) < MaxObjs
    /\ objs' = [objs EXCEPT ![Live] = Append(@, NewObject("path"))]
    /\ timers' = [timers EXCEPT ![Live] = Reschedule(@)]
    /\ UNCHANGED <<nCanvas, draft, tasks, isInitialized, editorVars, viewport>>

\* 'mouse:up' without a stroke
MouseUp ==
    /\ isInitialized
    /\ timers' = [timers EXCEPT ![Live] = Reschedule(@)]
    /\ UNCHANGED <<nCanvas, objs, draft, tasks, isInitialized, editorVars, viewport>>

\* the timer of the handler created with canvas c fires: saveCanvasState
TimerFires(c, ok) ==
    /\ timers[c] > 0
    /\ timers' = [timers EXCEPT ![c] = @ - 1]
    /\ draft' = SaveCanvasStateVersioned(objs[c], draft, ok)
    /\ UNCHANGED <<nCanvas, objs, tasks, isInitialized, editorVars, viewport>>

\* loadFromJSON of loadDraft completes on the canvas it was started on;
\* the objects it adds fire 'object:added' while the handler is registered.
DraftLoaded(t) ==
    /\ t \in tasks /\ t.kind = "load"
    /\ tasks' = tasks \ {t}
    /\ objs' = [objs EXCEPT ![t.canvas] = Deserialize(t.objects)]
    /\ timers' = IF isInitialized /\ t.canvas = Live /\ t.objects # <<>>
                 THEN [timers EXCEPT ![Live] = Reschedule(@)]
                 ELSE timers
    /\ UNCHANGED <<nCanvas, draft, isInitialized, editorVars, viewport>>

NextDebounce ==
    \/ EffectBody
    \/ Cleanup
    \/ StrokeCommitted
    \/ MouseUp
    \/ \E c \in Canvases, ok \in BOOLEAN : TimerFires(c, ok)
    \/ \E t \in tasks : DraftLoaded(t)

SpecDebounce == Init /\ [][NextDebounce]_vars

\* React runs a pending effect and a pending cleanup: the body whenever the
\* component has rendered with isInitialized false, the cleanup once the
\* body's own setIsInitialized(true) has changed the dependency.
SpecDebounceFair ==
    SpecDebounce /\ WF_vars(EffectBody) /\ WF_vars(Cleanup)

\* ================================================================ claims
\* The history listener ran with a canvas in its closure: a snapshot is pushed.
AddsOnLive == DrawStroke \/ AddText \/ (\E t \in tasks : ImportDone(t) /\ t.canvas = Live)

\* C1: a push performed when the cursor is c and the history is H leaves the
\* history equal to H[0..c] followed by the new snapshot, the cursor on the
\* new last index, and redo unavailable.
C1_PushAppendsAfterCursor ==
    [][AddsOnLive /\ Pushes(Live) =>
          /\ Len(history') >= 1
          /\ history' = SubSeq(history, 1, historyIndex + 1) \o <<history'[Len(history')]>>
          /\ historyIndex' = Len(history') - 1
          /\ ~canRedo']_vars

\* C2: with N pushes made from the empty history, the N-th consecutive undo
\* is the one performed at cursor 0; it returns the scene to the empty
\* scene it had before the first mutation (the empty scene is on the live
\* canvas, or is being loaded into it).
UndoToEmptyScene ==
    /\ HandleUndo
    /\ \/ objs'[Live] = <<>>
       \/ \E t \in tasks' : t.kind = "load" /\ t.canvas = Live /\ t.objects = <<>>

C2_UndoReachesEmptyScene ==
    (Ready /\ canUndo /\ historyIndex = 0) => ENABLED UndoToEmptyScene

\* C3: either the history is empty and the cursor is -1, or the cursor is
\* an index into the history.
C3_CursorValid ==
    \/ history = <<>> /\ historyIndex = -1
    \/ 0 <= historyIndex /\ historyIndex < Len(history)

\* A mutating command acts on the live canvas and changes its scene.
Command ==
    \/ AddsOnLive
    \/ HandleDelete
    \/ \E b \in BOOLEAN : HandleRotate(b)
    \/ \E b \in BOOLEAN : HandleResize(b)

Mutation == Command /\ objs'[Live] # objs[Live]

\* the scene a draft document holds; none when the slot is empty
DraftScene(d) == IF d = Absent THEN <<>> ELSE DocObjects(d)

\* C4: mutations do not write the draft slot themselves, one write each;
\* the write is made later, one debounce window after the last of them.
C4_MutationsDoNotWriteAtOnce == [][Mutation => draft' = draft]_vars

\* C5: a mutating command that changes the scene pushes a snapshot, and the
\* snapshot is the serialization of the live scene right after the mutation.
C5_CommandPushesLiveScene ==
    [][Mutation =>
          /\ Len(history') >= 1
          /\ history'[Len(history')] = Serialize(objs'[Live])]_vars

\* C6: a mutating command that changes the scene gets the draft slot written
\* with a scene that includes the mutation; with nothing left in flight the
\* write has been made when the command's handlers return.
C6_CommandSavesDraft ==
    [][Mutation /\ tasks' = {} =>
          /\ draft'.tag \in {"canvas", "absent"}
          /\ DraftScene(draft') = Serialize(objs'[Live]).objects]_vars

\* C7: once a snapshot has been pushed (and no entry has been saved), the
\* scene in the draft slot is the scene of the latest push.
C7_DraftIsLatestPush ==
    (history # <<>> /\ entries = <<>>) =>
        DraftScene(draft) = history[Len(history)].objects

\* C8: an empty scene is never written to the draft slot.
C8_EmptySceneNeverWritten == draft # Serialize(<<>>)

C10_BadDraftIsNoDraft ==
    [][SelectSize /\ draft.tag # "canvas" =>
          /\ ~crashed'
          /\ ~hasDraftLoaded'
          /\ tasks' = {}
          /\ objs'[nCanvas'] = <<>>]_vars

\* the initialisation effect runs again in a mounted session
ReInit == Ready /\ nCanvas' # nCanvas

\* C11: after the mount no re-run of the initialisation effect loads the
\* draft again (hasDraftLoaded does not become true, no load is started)
\* or replaces the scene in memory with stored or blank content.
C11_DraftLoadedOnlyAtMount ==
    [][ReInit =>
          /\ hasDraftLoaded' = hasDraftLoaded
          /\ tasks' \subseteq tasks
          /\ objs'[nCanvas'] = objs[nCanvas]]_vars

\* C12: a scheduled save is never cancelled: a pending timer stays pending
\* until its save runs, whatever else happens (further mutations, the
\* cleanup of the effect, a new canvas).
C12_ScheduledSaveNotCancelled ==
    [][\A c \in Canvases :
          timers[c] > 0 =>
             \/ timers'[c] > 0
             \/ \E ok \in BOOLEAN : TimerFires(c, ok)]_vars

\* the draft-save timers pending, over all handlers ever created
PendingTimers == {c \in Canvases : timers[c] > 0}

C14_RoundTrip ==
    objs[2] # <<>> =>
       /\ Len(objs[2]) = Len(objs[1])
       /\ \A i \in 1..Len(objs[1]) :
             /\ objs[2][i].type = objs[1][i].type
             /\ objs[2][i].angle = objs[1][i].angle
             /\ objs[2][i].scaleX = objs[1][i].scaleX
             /\ \A f \in JournalFlags : objs[2][i].flags[f] = objs[1][i].flags[f]


\* a zoom button, a wheel event or the pan toggle
ViewCommand ==
    \/ \E zoomIn \in BOOLEAN : HandleZoom(zoomIn)
    \/ \E down \in BOOLEAN, q \in Pointers : MouseWheel(down, q)
    \/ HandlePanToggle

\* C15: zooming and the pan toggle change the view only: the canvas
\* instance, its objects, the history with its cursor and the draft are the
\* same after the command as before.
C15_ViewCommandsFrame ==
    [][ViewCommand =>
          /\ nCanvas' = nCanvas
          /\ objs'[nCanvas'] = objs[nCanvas]
          /\ history' = history
          /\ historyIndex' = historyIndex
          /\ draft' = draft]_vars


\* C16: after any sequence of zoom-in, zoom-out and wheel events the zoom
\* factor, which is the value held in state and the value given to the
\* canvas, is within [0.1, 5.0].
C16_ZoomWithinLimits == ZoomMin <= zoom /\ zoom <= ZoomMax

\* the factor is at the upper limit and a further zoom-in is held there
C16_Witness == zoom = ZoomMax /\ ZoomStep(zoom, TRUE) = zoom


\* where, in thousandths of a canvas pixel, viewport w shows the scene point
\* that viewport v shows at canvas pixel q
ShownAt(v, w, q) == (w.zoom * (ZoomUnit * q - v.x)) \div v.zoom + w.x

\* The wrapper of the canvas element has transform: scale(zoom) with
\* transformOrigin 0 0, so canvas position m is on screen at zoom * m from
\* the wrapper's corner: the scene point under canvas pixel q is at the same
\* place on screen after the step as before.
AnchorFixed(q) == zoom' * ShownAt(viewport, viewport', q) = zoom * (ZoomUnit * q)

\* C17: zooming to a factor about an anchor point leaves the anchor's
\* position on screen unchanged, every transform the component applies
\* taken into account.
C17_AnchorStaysPut ==
    [][/\ \A zoomIn \in BOOLEAN : HandleZoom(zoomIn) => AnchorFixed(Center)
       /\ \A down \in BOOLEAN, q \in Pointers :
             MouseWheel(down, q) => AnchorFixed(q)]_vars


\* C18: a storage failure during a save of the draft, a save of an entry, a
\* listing of the entries or a deletion of an entry never leaves the
\* operation as an uncaught exception, and the failed operation leaves the
\* scene and the history as they were.
C18_StorageFailureCaught ==
    [][HandleConfirmSave(FALSE) =>
          /\ uncaught' = uncaught
          /\ objs' = objs
          /\ UNCHANGED histVars]_vars

\* C19: an import that fails in reading or decoding the file adds no
\* object, leaves scene, history and draft unchanged and raises no uncaught
\* exception (a successful one adds its object in the one step ImportDone).
C19_FailedImportAborts ==
    [][\A t \in tasks :
          (ImportFail(t) \/ DecodeFail(t)) =>
             /\ objs' = objs
             /\ UNCHANGED histVars
             /\ draft' = draft
             /\ uncaught' = uncaught]_vars


\* C20: the tool changes only when a tool button is activated, except that
\* selecting a colour while a tool other than the pen is active sets the
\* tool to pen; no other command changes the tool.
C20_ToolChangesOnlyByToolButton ==
    [][/\ tool' # tool =>
            \/ \E t \in Tools : HandleToolChange(t)
            \/ \E c \in Colors : SelectColor(c) /\ tool' = "pen"
       /\ \A c \in Colors : (SelectColor(c) /\ tool # "pen") => tool' = "pen"]_vars


\* C21: a rotate, resize or delete command issued while no object is
\* selected is a no-op: its only outcome leaves every variable (scene,
\* history and cursor, draft, the uncaught-exception flag) as it was.
C21_NoSelectionNoOp ==
    (Ready /\ active = 0) =>
       /\ ENABLED (HandleDelete /\ UNCHANGED vars)
       /\ ~ENABLED (HandleDelete /\ vars' # vars)
       /\ \A b \in BOOLEAN :
             /\ ENABLED (HandleRotate(b) /\ UNCHANGED vars)
             /\ ~ENABLED (HandleRotate(b) /\ vars' # vars)
             /\ ENABLED (HandleResize(b) /\ UNCHANGED vars)
             /\ ~ENABLED (HandleResize(b) /\ vars' # vars)

\* the canvas holds an object, has a history, and nothing is selected
C21_Witness ==
    /\ Ready
    /\ active = 0
    /\ objs[Live] # <<>>
    /\ history # <<>>


\* the load that undo or redo starts for cursor position k (0-based) of the
\* history: the snapshot at k, into the live canvas
StartsLoadOf(k) ==
    /\ k + 1 \in 1..Len(history)
    /\ LoadTask(Live, history[k + 1]) \in tasks'

\* C22: undo at a cursor <= 0 and redo at the last index change nothing;
\* otherwise undo takes one from the cursor (redo adds one), leaves the
\* history alone and loads the snapshot at the new cursor, and when that
\* load completes the scene of the live canvas is that snapshot,
\* deserialized.
C22_UndoRedoStep ==
    /\ [](/\ (Ready /\ historyIndex <= 0) => ~ENABLED (HandleUndo /\ vars' # vars)
          /\ (Ready /\ historyIndex >= Len(history) - 1) =>
                ~ENABLED (HandleRedo /\ vars' # vars))
    /\ [][/\ (HandleUndo /\ historyIndex > 0) =>
               /\ historyIndex' = historyIndex - 1
               /\ history' = history
               /\ StartsLoadOf(historyIndex - 1)
          /\ (HandleRedo /\ historyIndex < Len(history) - 1) =>
               /\ historyIndex' = historyIndex + 1
               /\ history' = history
               /\ StartsLoadOf(historyIndex + 1)
          /\ \A t \in tasks :
                (LoadDone(t) /\ t.origin = "history") =>
                   objs'[Live] = Deserialize(t.objects)]_vars


\* C23: deleteEntry(id) removes the one entry whose id is id and leaves
\* every other entry as it was and in the same order; a promoted entry goes
\* to the end of the list.
C23_DeleteRemovesOneEntry ==
    [][/\ \A id \in Times :
             DeleteEntry(id) =>
                \E i \in 1..Len(entries) :
                   entries[i].id = id /\ entries' = Remove(entries, i)
       /\ \A title \in Titles, id \in Times :
             SaveEntryAt(title, id) =>
                /\ Len(entries') = Len(entries) + 1
                /\ SubSeq(entries', 1, Len(entries)) = entries]_vars


\* C24: initialisation terminates: from some point on there is one canvas
\* that is not disposed and has its change listeners attached, and the
\* effect does not run again because of its own state updates.
C24_InitSettles ==
    /\ <>[](isInitialized /\ nCanvas >= 1)
    /\ [][/\ isInitialized => isInitialized'
          /\ nCanvas >= 1 => nCanvas' = nCanvas]_vars

\* ------------------------------------------------- the autosaving revision
\* The component of src/unnamed/part_007: every listener calls
\* saveCanvasState(fabricCanvas) at once, the effect arms a 500 ms save that
\* nothing clears, its cleanup saves before it disposes, and the brush
\* effect saves after updateBrush.  It runs against saveCanvasState and
\* loadDraft of canvasOperations.ts lines 97-207.
autosaveFrame == <<clIndex, active, editing, isPanning, zoom, history, historyIndex,
                   canUndo, canRedo, crashed, extras, uncaught, penColor, viewport,
                   isInitialized>>

\* the canvas exists and the component shows it
Mounted == ~showCanvasSizeSelector /\ nCanvas >= 1

\* the brush effect that the render after setCanvas(fabricCanvas) schedules
BrushEffectOf(n) == [kind |-> "effect", origin |-> "canvas", canvas |-> n, objects |-> <<>>]

\* handleCanvasSizeSelect, then the effect of lines 111-272 in the render it
\* causes: initializeCanvas, setCanvas, loadDraft unless hasDraftLoaded,
\* the listeners, and setTimeout(save, 500).
MountCanvas ==
    /\ showCanvasSizeSelector
    /\ nCanvas < MaxInits
    /\ LET n == nCanvas + 1
           r == IF hasDraftLoaded THEN "none" ELSE LoadDraftVersioned(draft)
       IN  /\ nCanvas' = n
           /\ objs' = [objs EXCEPT ![n] = <<>>]
           /\ tasks' = tasks \cup {BrushEffectOf(n)} \cup
                 (IF r = "loaded"
                  THEN {[kind |-> "load", origin |-> "draft", canvas |-> n,
                         objects |-> draft.canvasData.objects]}
                  ELSE {})
           /\ hasDraftLoaded' = (hasDraftLoaded \/ r = "loaded")
           /\ timers' = [timers EXCEPT ![n] = 1]
    /\ showCanvasSizeSelector' = FALSE
    /\ UNCHANGED <<tool, draft, entries, autosaveFrame>>

\* the brush effect of lines 275-283 runs for the new canvas:
\* updateBrush, then saveCanvasState(canvas)
BrushEffect(t, ok) ==
    /\ t \in tasks /\ t.kind = "effect"
    /\ tasks' = tasks \ {t}
    /\ draft' = SaveCanvasStateVersioned(objs[t.canvas], draft, ok)
    /\ UNCHANGED <<showCanvasSizeSelector, nCanvas, objs, hasDraftLoaded, timers,
                   tool, entries, autosaveFrame>>

\* handleToolChange(newTool): setTool changes a dependency of the brush
\* effect, which saves in the render that follows
ToolChanged(t, ok) ==
    /\ Mounted
    /\ \A e \in tasks : e.kind # "effect"
    /\ t # tool
    /\ tool' = t
    /\ draft' = SaveCanvasStateVersioned(objs[Live], draft, ok)
    /\ UNCHANGED <<showCanvasSizeSelector, nCanvas, objs, hasDraftLoaded, timers,
                   tasks, entries, autosaveFrame>>

\* a stroke: 'object:added' and 'path:created' both save at once
StrokeSaved(ok) ==
    /\ Mounted
    /\ DrawingMode
    /\ Len(objs[Live]) < MaxObjs
    /\ objs' = [objs EXCEPT ![Live] = Append(@, NewObject("path"))]
    /\ draft' = SaveCanvasStateVersioned(objs'[Live], draft, ok)
    /\ UNCHANGED <<showCanvasSizeSelector, nCanvas, hasDraftLoaded, timers, tasks,
                   tool, entries, autosaveFrame>>

\* loadFromJSON of loadDraft completes; each object it adds fires
\* 'object:added' on a canvas whose listeners are still registered
DraftLoadedSaved(t, ok) ==
    /\ t \in tasks /\ t.kind = "load"
    /\ tasks' = tasks \ {t}
    /\ objs' = [objs EXCEPT ![t.canvas] = Deserialize(t.objects)]
    /\ draft' = IF Mounted /\ t.canvas = Live /\ t.objects # <<>>
                THEN SaveCanvasStateVersioned(objs'[Live], draft, ok)
                ELSE draft
    /\ UNCHANGED <<showCanvasSizeSelector, nCanvas, hasDraftLoaded, timers, tool,
                   entries, autosaveFrame>>

\* handleConfirmSave of lines 323-332
ConfirmSave(ok) ==
    /\ Mounted
    /\ Len(entries) < MaxExtras
    /\ LET r == SaveEntry(entries, draft, Serialize(objs[Live]), "Untitled", ok)
       IN  entries' = r.entries /\ draft' = r.draft
    /\ UNCHANGED <<showCanvasSizeSelector, nCanvas, objs, hasDraftLoaded, timers,
                   tasks, tool, autosaveFrame>>

\* the component unmounts: the effect's cleanup saves and disposes, a
\* scheduled brush effect never runs, and the next mount starts from the
\* useState initial values.  The 500 ms timer is not cleared.
Unmount(ok) ==
    /\ Mounted
    /\ draft' = SaveCanvasStateVersioned(objs[Live], draft, ok)
    /\ objs' = Dispose(objs, Live)
    /\ tasks' = {t \in tasks : t.kind # "effect"}
    /\ showCanvasSizeSelector' = TRUE
    /\ hasDraftLoaded' = FALSE
    /\ tool' = "pen"
    /\ UNCHANGED <<nCanvas, timers, entries, autosaveFrame>>

\* the 500 ms timer armed by the effect run that created canvas c fires:
\* saveCanvasState(fabricCanvas), whatever has become of that canvas
InitialSave(c, ok) ==
    /\ timers[c] > 0
    /\ timers' = [timers EXCEPT ![c] = 0]
    /\ draft' = SaveCanvasStateVersioned(objs[c], draft, ok)
    /\ UNCHANGED <<showCanvasSizeSelector, nCanvas, objs, hasDraftLoaded, tasks,
                   tool, entries, autosaveFrame>>

NextAutosave ==
    \/ MountCanvas
    \/ \E t \in tasks, ok \in BOOLEAN : BrushEffect(t, ok)
    \/ \E t \in Tools, ok \in BOOLEAN : ToolChanged(t, ok)
    \/ \E ok \in BOOLEAN : StrokeSaved(ok)
    \/ \E t \in tasks, ok \in BOOLEAN : DraftLoadedSaved(t, ok)
    \/ \E ok \in BOOLEAN : ConfirmSave(ok)
    \/ \E ok \in BOOLEAN : Unmount(ok)
    \/ \E c \in Canvases, ok \in BOOLEAN : InitialSave(c, ok)

SpecAutosave == Init /\ [][NextAutosave]_vars

\* the draft load started at mount has not completed and nothing has been
\* put on the canvas
DraftLoadPending ==
    /\ Mounted
    /\ objs[Live] = <<>>
    /\ \E t \in tasks : t.kind = "load" /\ t.origin = "draft" /\ t.canvas = Live

\* C25: while the draft load started at mount is still in flight and the
\* user has put nothing on the canvas, no automatic save (the brush effect's
\* save after mount, the 500 ms initial save) changes the draft slot: it is
\* neither removed nor rewritten with another scene.
C25_MountKeepsDraft ==
    [][\A ok \in BOOLEAN :
          (DraftLoadPending /\ ((\E t \in tasks : BrushEffect(t, ok)) \/ InitialSave(Live, ok)))
             => draft' = draft]_vars

\* saveEntry has stored the scene that is on the canvas and removed the draft
EntrySaved ==
    /\ Mounted
    /\ entries # <<>>
    /\ entries[Len(entries)].content = Serialize(objs[Live])
    /\ draft = Absent

\* an event that changes no object of the scene: a tool change, the 500 ms
\* timer of any effect run, the unmount
NonMutating(ok) ==
    \/ \E t \in Tools : ToolChanged(t, ok)
    \/ \E c \in Canvases : InitialSave(c, ok)
    \/ Unmount(ok)

\* C26: once saveEntry has stored the scene and cleared the draft slot, an
\* event that does not mutate the scene (tool change, pending save timer,
\* unmount) leaves the draft absent.
C26_DraftStaysCleared ==
    [][\A ok \in BOOLEAN : (EntrySaved /\ NonMutating(ok)) => draft' = Absent]_vars

\* C27: undo and redo move only the cursor and replace the scene: the
\* handlers leave the history as it is, and the 'object:added' events fired
\* while the snapshot they asked for is loaded neither push onto the
\* history nor truncate it nor move the cursor.
C27_UndoRedoKeepHistory ==
    [][/\ (HandleUndo \/ HandleRedo) => history' = history
       /\ \A t \in tasks :
             (LoadDone(t) /\ t.origin = "history")
                => history' = history /\ historyIndex' = historyIndex]_vars

\* C28: in every state the Undo button is enabled exactly when the cursor
\* is above the first history entry, and the Redo button exactly when the
\* cursor is below the last one.
C28_ButtonsFollowCursor ==
    /\ canUndo <=> historyIndex > 0
    /\ canRedo <=> historyIndex < Len(history) - 1

\* C29: in every state with a canvas the zoom state equals the zoom of the
\* live canvas's viewport; neither a tool change nor a re-initialisation
\* changes one without the other.
C29_ZoomMatchesViewport == Ready => viewport.zoom = zoom

\* ------------------------------------------------- the scale command alone
\* resizeObject applied again and again to one object of a mounted canvas.
\* the largest scale followed, in tenths
MaxScale == 20

\* activeObject.scale(newScale).  fabric is not part of the sources: for a
\* positive value scaleX becomes the value; for zero or a negative value it
\* either stores the value as given or constrains it to a positive one (the
\* magnitude of a negative value, the smallest positive scale for zero).
FabricScale(value, asGiven) ==
    IF value > 0 \/ asGiven THEN value
    ELSE IF value = 0 THEN ResizeStep
    ELSE -value

\* a mounted canvas holding one object, selected or not
InitScale ==
    /\ showCanvasSizeSelector = FALSE
    /\ nCanvas = 1
    /\ \E kind \in Kinds :
          objs = [c \in Canvases |-> IF c = 1 THEN <<NewObject(kind)>> ELSE <<>>]
    /\ clIndex = [c \in Canvases |-> -1]
    /\ active \in {0, 1}
    /\ editing = FALSE
    /\ tool = "lasso"
    /\ isPanning = FALSE
    /\ zoom = ZoomUnit
    /\ hasDraftLoaded = FALSE
    /\ history = <<>>
    /\ historyIndex = -1
    /\ canUndo = FALSE
    /\ canRedo = FALSE
    /\ draft = Absent
    /\ entries = <<>>
    /\ tasks = {}
    /\ crashed = FALSE
    /\ extras = 0
    /\ isInitialized = FALSE
    /\ timers = [c \in Canvases |-> 0]
    /\ viewport = Identity
    /\ uncaught = FALSE
    /\ penColor = "#000000"

scaleFrame == <<showCanvasSizeSelector, nCanvas, clIndex, editing, tool, penColor,
                isPanning, zoom, hasDraftLoaded, history, historyIndex, canUndo,
                canRedo, draft, entries, tasks, crashed, extras, uncaught,
                debounceVars, viewport>>

\* handleResize(increase): resizeObject(canvas, +-0.1), which does nothing
\* without an active object
ScaleSelected(increase, asGiven) ==
    /\ LET by == IF increase THEN ResizeStep ELSE -ResizeStep IN
       IF active # 0
       THEN LET new == FabricScale(ResizeObject(objs[Live][active], by).scaleX, asGiven)
            IN  /\ new \in (-MaxScale)..MaxScale
                /\ objs' = [objs EXCEPT ![Live][active].scaleX = new]
       ELSE objs' = objs
    /\ UNCHANGED <<active, scaleFrame>>

\* a click on the object makes it the active object
PickObject ==
    /\ active = 0
    /\ active' = 1
    /\ UNCHANGED <<objs, scaleFrame>>

\* a click on the empty canvas discards the active object
DropSelection ==
    /\ active # 0
    /\ active' = 0
    /\ UNCHANGED <<objs, scaleFrame>>

NextScale ==
    \/ \E b \in BOOLEAN, g \in BOOLEAN : ScaleSelected(b, g)
    \/ PickObject
    \/ DropSelection

SpecScale == InitScale /\ [][NextScale]_vars

\* C30: every scale command on a selected object changes its scale factor
\* by exactly one step (0.1), up for scale-up and down for scale-down, and
\* the scale factor of every object is strictly positive in every state.
C30_ScaleStepExactAndPositive ==
    /\ [](\A i \in 1..Len(objs[Live]) : objs[Live][i].scaleX > 0)
    /\ [][\A b \in BOOLEAN, g \in BOOLEAN :
             (active # 0 /\ ScaleSelected(b, g))
                => objs'[Live][active].scaleX
                      = objs[Live][active].scaleX + (IF b THEN ResizeStep ELSE -ResizeStep)]_vars

=============================================================================
